---- MODULE Spec2Model ----
(***************************************************************************)
(* Multi-track player with two time/pitch processors: the transport state  *)
(* machine (playButtonClicked / stopButtonClicked / changeState), the      *)
(* render callback (getNextAudioBlock), the mixer (mixTracksIntoBuffer)    *)
(* and TimePitchProcessor::processBlock with its feed-until-available      *)
(* loop around the stretcher.                                              *)
(*                                                                         *)
(* Audio is abstracted to tags: a frame or chunk is "zero" (silence),      *)
(* "audio" (derived from source audio) or "stale" (content that was in a   *)
(* buffer before the callback wrote to it).  The stretcher's buffered       *)
(* output is its frame count and one tag for its content ("audio" when     *)
(* some buffered frame derives from source audio).  Tempo values are       *)
(* hundredths.  Control callbacks and the render callback are serialized.  *)
(***************************************************************************)
EXTENDS Integers, Sequences, FiniteSets, TLC

\* ------------------------------------------------------------------ bounds
MaxBlock == 2
MaxYield == 2
SourceChunks == 2

\* ------------------------------------------------------- program constants
requiredSamples == 256
NumTracks == 3
NumChannels == 2

Tracks == 1..NumTracks
Channels == 1..NumChannels
Processors == {"drum", "musical"}
TransportState == {"Stopped", "Starting", "Playing", "Pausing", "Paused", "Stopping"}
Settled == {"Stopped", "Playing", "Paused"}
TempoSliderValues == {100, 200}
SourceLength == SourceChunks * requiredSamples

Min(a, b) == IF a < b THEN a ELSE b

VARIABLES
    state,        \* MainComponent::state
    loopToggle,   \* loopToggleButton toggle state
    tracks,       \* tracks[t]: the Track objects
    procs,        \* procs[p]: drumProcessor / musicalProcessor
    variant,      \* which processBlock is linked: feed margin 1 or 2
    rpc,          \* position of the render callback
    numSamples,   \* bufferToFill.numSamples of the callback in progress
    out,          \* bufferToFill.buffer, per channel
    mix,          \* drumMix / musicalMix, per channel
    call,         \* bookkeeping of the processBlock calls of this callback
    cmdLog,       \* the last two transport commands: [cmd, trail]
    conc,         \* a command and a render callback on two threads
    mx,           \* one mixTracksIntoBuffer call on sample values
    tl,           \* the timeline and the queued track starts
    fm,           \* the timeline's labels and its time signature
    tc            \* a tempo change and a render callback on two threads

vars == <<state, loopToggle, tracks, procs, variant, rpc, numSamples, out, mix,
          call, cmdLog, conc, mx, tl, fm, tc>>

\* the variables the player's own callbacks leave alone
auxVars == <<conc, mx, tl, fm, tc>>

\* ------------------------------------------------------------ sample tags
AddTag(a, b) ==
    IF a = "stale" \/ b = "stale" THEN "stale"
    ELSE IF a = "audio" \/ b = "audio" THEN "audio"
    ELSE "zero"

ScaleTag(a, volume) == IF volume = 0 THEN "zero" ELSE a

NewBuffer(n) == [c \in Channels |-> [i \in 1..n |-> "stale"]]

ClearIdentity(buf) == buf

\* AudioBuffer::clear / clearActiveBufferRegion
ClearBuffer(buf) == [c \in DOMAIN buf |-> [i \in DOMAIN buf[c] |-> "zero"]]

\* AudioBuffer::addFrom for every channel of the destination
AddFrom(dst, src) ==
    [c \in DOMAIN dst |-> [i \in DOMAIN dst[c] |-> AddTag(dst[c][i], src[c][i])]]

\* ------------------------------------------------------------ track source
isPercussive(t) == t = 3

InitTrack ==
    [playing |-> FALSE, position |-> 0, readerLooping |-> FALSE,
     transportLooping |-> FALSE, wasLooping |-> FALSE,
     currentVolume |-> 100, isMuted |-> FALSE, lastBuffer |-> "none"]

transportStart(tr) == [tr EXCEPT !.playing = TRUE]

transportStop(tr) == [tr EXCEPT !.playing = FALSE]

setPosition(tr, pos) == [tr EXCEPT !.position = pos]

setLooping(tr, shouldLoop) ==
    [tr EXCEPT !.readerLooping = shouldLoop, !.transportLooping = shouldLoop]

\* transportSource.getNextAudioBlock(info): one chunk of requiredSamples
readTrack(tr) ==
    IF tr.playing
    THEN LET hasAudio == tr.readerLooping \/ tr.position < SourceLength
             newPos == IF tr.readerLooping
                       THEN (tr.position + requiredSamples) % SourceLength
                       ELSE Min(tr.position + requiredSamples,
                                SourceLength + requiredSamples)
             finished == ~tr.readerLooping /\ newPos > SourceLength
         IN [tr EXCEPT !.position = newPos,
                       !.playing = ~finished,
                       !.lastBuffer = IF hasAudio THEN "audio" ELSE "zero"]
    ELSE [tr EXCEPT !.lastBuffer = "zero"]

\* ------------------------------------------------------------------- mixer
RECURSIVE SumTags(_, _)
SumTags(ts, S) ==
    IF S = {} THEN "zero"
    ELSE LET t == CHOOSE x \in S : TRUE
             volume == IF ts[t].isMuted THEN 0 ELSE ts[t].currentVolume
         IN AddTag(ScaleTag(ts[t].lastBuffer, volume), SumTags(ts, S \ {t}))

mixFirstTrackOnly(percussive, ts) ==
    LET sel == {t \in Tracks : isPercussive(t) = percussive}
        first == {t \in sel : \A u \in sel : t <= u}
        ts2 == [t \in Tracks |-> IF t \in first THEN readTrack(ts[t]) ELSE ts[t]]
    IN [tracks |-> ts2, chunk |-> SumTags(ts2, sel)]

\* mixTracksIntoBuffer(percussive, buffer): the tracks after the reads and
\* the tag of the mixed chunk
mixTracksIntoBuffer(percussive, ts) ==
    LET sel == {t \in Tracks : isPercussive(t) = percussive}
        ts2 == [t \in Tracks |-> IF t \in sel THEN readTrack(ts[t]) ELSE ts[t]]
    IN [tracks |-> ts2, chunk |-> SumTags(ts2, sel)]

\* ------------------------------------------------- transport state machine
neverSame(current, newState) == FALSE

\* changeState: "if (state != newState)"
sameState(current, newState) == current = newState

cascadeStuck(s) == s

\* the state a transient state moves on to at the end of its case
cascade(s) ==
    CASE s = "Starting" -> "Playing"
      [] s = "Pausing"  -> "Paused"
      [] s = "Stopping" -> "Stopped"
      [] OTHER          -> s

startTrackLoopOnly(tr, shouldLoop) == setLooping(tr, shouldLoop)

\* case Starting, per track
startTrack(tr, shouldLoop) ==
    LET t1 == setLooping(tr, shouldLoop)
        t2 == [t1 EXCEPT !.wasLooping = IF shouldLoop THEN TRUE ELSE @]
    IN transportStart(t2)

pauseTrackRewind(tr) == [tr EXCEPT !.playing = FALSE, !.position = 0]

\* case Pausing, per track
pauseTrack(tr) == transportStop(tr)

rewindTrackKeep(tr) == tr

\* case Stopped, per track
rewindTrack(tr) == setPosition(tr, 0)

\* the side effect of the switch case of newState on the tracks
enterState(newState, ts, shouldLoop) ==
    CASE newState = "Stopped"  -> [t \in Tracks |-> rewindTrack(ts[t])]
      [] newState = "Starting" -> [t \in Tracks |-> startTrack(ts[t], shouldLoop)]
      [] newState = "Pausing"  -> [t \in Tracks |-> pauseTrack(ts[t])]
      [] newState = "Stopping" -> [t \in Tracks |-> transportStop(ts[t])]
      [] OTHER                 -> ts

\* changeState(newState) on w = [state, tracks, trail]; trail records every
\* value assigned to state
RECURSIVE changeState(_, _, _)
changeState(w, newState, shouldLoop) ==
    IF sameState(w.state, newState) THEN w
    ELSE LET w1 == [state  |-> newState,
                    tracks |-> enterState(newState, w.tracks, shouldLoop),
                    trail  |-> Append(w.trail, newState)]
         IN IF cascade(newState) # newState
            THEN changeState(w1, cascade(newState), shouldLoop)
            ELSE w1

playTargetIgnoring(s) ==
    IF s \in {"Stopped", "Paused"} THEN "Starting" ELSE "none"

\* playButtonClicked: the state it asks changeState for ("none": no call)
playTarget(s) ==
    IF s \in {"Stopped", "Paused"} THEN "Starting"
    ELSE IF s = "Playing" THEN "Pausing"
    ELSE "none"

\* stopButtonClicked: the state it asks changeState for
stopTarget(s) == IF s = "Paused" THEN "Stopped" ELSE "Stopping"

Log(l, e) == IF Len(l) < 2 THEN Append(l, e) ELSE <<l[2], e>>

Command(cmd, target) ==
    LET w0 == [state |-> state, tracks |-> tracks, trail |-> <<state>>]
        w  == IF target = "none" THEN w0 ELSE changeState(w0, target, loopToggle)
    IN /\ state' = w.state
       /\ tracks' = w.tracks
       /\ cmdLog' = Log(cmdLog, [cmd |-> cmd, trail |-> w.trail])

PlayButtonClicked ==
    /\ rpc = "idle"
    /\ Command("play", playTarget(state))
    /\ UNCHANGED auxVars
    /\ UNCHANGED <<loopToggle, procs, variant, rpc, numSamples, out, mix, call>>

StopButtonClicked ==
    /\ rpc = "idle"
    /\ Command("stop", stopTarget(state))
    /\ UNCHANGED auxVars
    /\ UNCHANGED <<loopToggle, procs, variant, rpc, numSamples, out, mix, call>>

\* loopToggleButton.onClick
LoopToggleClicked ==
    /\ rpc = "idle"
    /\ loopToggle' = ~loopToggle
    /\ tracks' = [t \in Tracks |->
                    [setLooping(tracks[t], ~loopToggle) EXCEPT !.wasLooping = ~loopToggle]]
    /\ UNCHANGED auxVars
    /\ UNCHANGED <<state, procs, variant, rpc, numSamples, out, mix, call, cmdLog>>

\* ------------------------------------------------------ TimePitchProcessor
\* timeRatio, pitchScale (in 1/10000) and formantOption are the stretcher's
\* settings; refused and thrown record how the last prepare went: its
\* arguments were ones no stretcher can be made for, and an exception left it
InitProcessor ==
    [stretcher |-> FALSE, currentPitch |-> 0, currentTempo |-> 100,
     formantEnabled |-> FALSE, timeRatio |-> 100,
     available |-> 0, buffered |-> "zero",
     pitchScale |-> 10000, formantOption |-> FALSE,
     refused |-> FALSE, thrown |-> FALSE]

\* 2^(r/12) for r = 0..11, in 1/10000
SemitoneScales ==
    <<10000, 10595, 11225, 11892, 12599, 13348, 14142, 14983, 15874, 16818,
      17818, 18877>>

RECURSIVE TwoToThe(_)
TwoToThe(n) == IF n = 0 THEN 1 ELSE 2 * TwoToThe(n - 1)

unitScale(semitones) == 10000

\* "std::pow(2.0f, currentPitch / 12.0f)" for whole semitones
pitchScaleOf(semitones) ==
    LET octaves == semitones \div 12
        rest == semitones % 12
    IN IF octaves >= 0 THEN SemitoneScales[rest + 1] * TwoToThe(octaves)
       ELSE SemitoneScales[rest + 1] \div TwoToThe(-octaves)

prepareWithDefaults(pr) ==
    [pr EXCEPT !.stretcher = TRUE, !.timeRatio = 100,
               !.available = 0, !.buffered = "zero",
               !.pitchScale = 10000, !.formantOption = FALSE,
               !.refused = FALSE, !.thrown = FALSE]

\* TimePitchProcessor::prepare with a sample rate and a channel count the
\* stretcher is made for
prepare(pr) ==
    [pr EXCEPT !.stretcher = TRUE, !.timeRatio = pr.currentTempo,
               !.available = 0, !.buffered = "zero",
               !.pitchScale = pitchScaleOf(pr.currentPitch),
               !.formantOption = pr.formantEnabled,
               !.refused = FALSE, !.thrown = FALSE]

\* TimePitchProcessor::prepare with arguments no stretcher can be made for.
\* prepare does not look at them: the constructor either throws, which
\* leaves prepare before `stretcher` is assigned, or returns a stretcher.
prepareRefused(pr, throws) ==
    IF throws THEN [pr EXCEPT !.refused = TRUE, !.thrown = TRUE]
    ELSE [prepare(pr) EXCEPT !.refused = TRUE]

\* TimePitchProcessor::setPitchSemiTones
setPitchSemiTones(pr, semitones) ==
    [pr EXCEPT !.currentPitch = semitones,
               !.pitchScale = IF pr.stretcher THEN pitchScaleOf(semitones) ELSE @]

\* TimePitchProcessor::setFormantEnabled
setFormantEnabled(pr, shouldPreserveFormant) ==
    [pr EXCEPT !.formantEnabled = shouldPreserveFormant,
               !.formantOption = IF pr.stretcher THEN shouldPreserveFormant ELSE @]

setTempoRatioFlushing(pr, ratio) ==
    [pr EXCEPT !.currentTempo = ratio,
               !.timeRatio = IF pr.stretcher THEN ratio ELSE @,
               !.available = 0, !.buffered = "zero"]

\* TimePitchProcessor::setTempoRatio
setTempoRatio(pr, ratio) ==
    [pr EXCEPT !.currentTempo = ratio,
               !.timeRatio = IF pr.stretcher THEN ratio ELSE @]

\* prepareToPlay
PrepareToPlay ==
    /\ rpc = "idle"
    /\ \E p \in Processors : ~procs[p].stretcher
    /\ procs' = [p \in Processors |-> prepare(procs[p])]
    /\ UNCHANGED auxVars
    /\ UNCHANGED <<state, loopToggle, tracks, variant, rpc, numSamples, out, mix,
                   call, cmdLog>>

\* tempoSlider.onValueChange
TempoSliderChanged(v) ==
    /\ rpc = "idle"
    /\ LET inverted == 200 - v
       IN procs' = [p \in Processors |-> setTempoRatio(procs[p], inverted)]
    /\ UNCHANGED auxVars
    /\ UNCHANGED <<state, loopToggle, tracks, variant, rpc, numSamples, out, mix,
                   call, cmdLog>>

\* frames one stretcher->process call can add to available()
Yields(timeRatio) == IF timeRatio <= 0 THEN {0} ELSE 0..MaxYield

needsInputLive(available, outSamples) == available < outSamples

\* a feed loop that stops one frame short of the doubled margin
needsInputUpTo(available, outSamples) == available < outSamples * 2 - 1

needsInputTimeline(available, outSamples) == available < outSamples * 2

needsMoreInputOffByOne(available, outSamples, v) == available + 1 < outSamples

\* the guard of the feed loop of processBlock in the linked variant
needsMoreInput(available, outSamples, v) ==
    IF v = 1 THEN needsInputLive(available, outSamples)
    ELSE needsInputTimeline(available, outSamples)

\* stretcher->process(inputPointers, requiredSamples, false) making y frames
process(pr, chunk, y) ==
    [pr EXCEPT !.available = @ + y,
               !.buffered = IF y > 0 THEN AddTag(@, chunk) ELSE @]

\* frames stretcher->retrieve(outputPointers, outSamples) delivers
retrieved(pr, outSamples) == Min(outSamples, pr.available)

retrieveAll(pr, outSamples) == [pr EXCEPT !.available = 0, !.buffered = "zero"]

\* the stretcher after retrieve
retrieve(pr, outSamples) ==
    LET left == pr.available - retrieved(pr, outSamples)
    IN [pr EXCEPT !.available = left,
                  !.buffered = IF left = 0 THEN "zero" ELSE @]

\* the output buffer after retrieve: frames beyond those delivered keep
\* their content
retrieveInto(buf, pr, outSamples) ==
    [c \in DOMAIN buf |->
       [i \in DOMAIN buf[c] |->
          IF i <= retrieved(pr, outSamples) THEN pr.buffered ELSE buf[c][i]]]

\* pulls: iterations of the feed loop in this call, counted 0, 1, 2, 1, 2, ...
\* while the loop runs; 0 or 1 (none or some) once it is left
NoCall == [entryAvail |-> -1, pulls |-> 0, atExtract |-> -1, got |-> -1]
EnterCall(pr) == [NoCall EXCEPT !.entryAvail = IF pr.stretcher THEN pr.available ELSE -1]

NextPc(p) == IF p = "drum" THEN "musical" ELSE "merge"

\* call bookkeeping when processBlock of p returns and the next one is entered
Leave(p, done) ==
    IF p = "drum"
    THEN [call EXCEPT !["drum"] = done, !["musical"] = EnterCall(procs["musical"])]
    ELSE [call EXCEPT !["musical"] = done]

\* ---------------------------------------------------------- render callback
\* getNextAudioBlock up to the first processBlock call
RenderBegin(n) ==
    /\ rpc = "idle"
    /\ rpc' = "drum"
    /\ numSamples' = n
    /\ out' = ClearBuffer(NewBuffer(n))
    /\ mix' = [p \in Processors |-> NewBuffer(n)]
    /\ call' = [p \in Processors |-> IF p = "drum" THEN EnterCall(procs[p]) ELSE NoCall]
    /\ UNCHANGED auxVars
    /\ UNCHANGED <<state, loopToggle, tracks, procs, variant, cmdLog>>

unpreparedOutputKeep(buf) == buf

\* "output.clear()" of the unprepared path
unpreparedOutput(buf) == ClearBuffer(buf)

\* processBlock: "if (!stretcher) { output.clear(); return; }"
ProcessUnprepared(p) ==
    /\ rpc = p
    /\ ~procs[p].stretcher
    /\ mix' = [mix EXCEPT ![p] = unpreparedOutput(mix[p])]
    /\ rpc' = NextPc(p)
    /\ call' = Leave(p, call[p])
    /\ UNCHANGED auxVars
    /\ UNCHANGED <<state, loopToggle, tracks, procs, variant, numSamples, out, cmdLog>>

\* processBlock: one iteration of the feed loop
Feed(p) ==
    /\ rpc = p
    /\ procs[p].stretcher
    /\ needsMoreInput(procs[p].available, numSamples, variant)
    /\ LET m == mixTracksIntoBuffer(p = "drum", tracks)
       IN /\ tracks' = m.tracks
          /\ \E y \in Yields(procs[p].timeRatio) :
                procs' = [procs EXCEPT ![p] = process(@, m.chunk, y)]
    /\ call' = [call EXCEPT ![p].pulls = IF @ = 1 THEN 2 ELSE 1]
    /\ UNCHANGED auxVars
    /\ UNCHANGED <<state, loopToggle, variant, rpc, numSamples, out, mix, cmdLog>>

\* processBlock: the loop is left and outSamples frames are retrieved
Retrieve(p) ==
    /\ rpc = p
    /\ procs[p].stretcher
    /\ ~needsMoreInput(procs[p].available, numSamples, variant)
    /\ mix' = [mix EXCEPT ![p] = retrieveInto(mix[p], procs[p], numSamples)]
    /\ procs' = [procs EXCEPT ![p] = retrieve(@, numSamples)]
    /\ call' = Leave(p, [call[p] EXCEPT !.atExtract = procs[p].available,
                                        !.got = retrieved(procs[p], numSamples),
                                        !.pulls = Min(@, 1)])
    /\ rpc' = NextPc(p)
    /\ UNCHANGED auxVars
    /\ UNCHANGED <<state, loopToggle, tracks, variant, numSamples, out, cmdLog>>

\* getNextAudioBlock: the merge loop over the output channels
RenderMerge ==
    /\ rpc = "merge"
    /\ out' = AddFrom(AddFrom(out, mix["drum"]), mix["musical"])
    /\ rpc' = "return"
    /\ UNCHANGED auxVars
    /\ UNCHANGED <<state, loopToggle, tracks, procs, variant, numSamples, mix, call, cmdLog>>

RenderReturnStopping ==
    /\ rpc = "return"
    /\ rpc' = "idle"
    /\ numSamples' = 0
    /\ out' = <<>>
    /\ mix' = [p \in Processors |-> <<>>]
    /\ call' = [p \in Processors |-> NoCall]
    /\ state' = IF \A t \in Tracks : ~tracks[t].playing THEN "Stopped" ELSE state
    /\ UNCHANGED auxVars
    /\ UNCHANGED <<loopToggle, tracks, procs, variant, cmdLog>>

\* getNextAudioBlock returns; its locals go away
RenderReturn ==
    /\ rpc = "return"
    /\ rpc' = "idle"
    /\ numSamples' = 0
    /\ out' = <<>>
    /\ mix' = [p \in Processors |-> <<>>]
    /\ call' = [p \in Processors |-> NoCall]
    /\ UNCHANGED auxVars
    /\ UNCHANGED <<state, loopToggle, tracks, procs, variant, cmdLog>>

Render ==
    \/ \E n \in 1..MaxBlock : RenderBegin(n)
    \/ \E p \in Processors : ProcessUnprepared(p) \/ Feed(p) \/ Retrieve(p)
    \/ RenderMerge
    \/ RenderReturn

\* the parts of the state that a specification does not use
NoConc == [pc |-> "idle"]
NoMix == [pc |-> "none"]
NoTimeline == [pc |-> "none"]
NoFormat == [pc |-> "none"]
NoTempoChange == [pc |-> "none"]

\* ------------------------------------------------------------ specification
Init ==
    /\ state = "Stopped"
    /\ loopToggle = FALSE
    /\ tracks = [t \in Tracks |-> InitTrack]
    /\ procs = [p \in Processors |-> InitProcessor]
    /\ variant \in {1, 2}
    /\ rpc = "idle"
    /\ numSamples = 0
    /\ out = <<>>
    /\ mix = [p \in Processors |-> <<>>]
    /\ call = [p \in Processors |-> NoCall]
    /\ cmdLog = <<>>
    /\ conc = NoConc
    /\ mx = NoMix
    /\ tl = NoTimeline
    /\ fm = NoFormat
    /\ tc = NoTempoChange

Next ==
    \/ PlayButtonClicked
    \/ StopButtonClicked
    \/ LoopToggleClicked
    \/ PrepareToPlay
    \/ \E v \in TempoSliderValues : TempoSliderChanged(v)
    \/ \E n \in 1..MaxBlock : RenderBegin(n)
    \/ \E p \in Processors : ProcessUnprepared(p)
    \/ \E p \in Processors : Feed(p)
    \/ \E p \in Processors : Retrieve(p)
    \/ RenderMerge
    \/ RenderReturn

Spec == Init /\ [][Next]_vars

\* the render callback keeps running once entered, and a stretcher with a
\* positive time ratio goes on producing output
FeedProgress(p) == Feed(p) /\ procs'[p].available > procs[p].available

FairSpec ==
    /\ Init /\ [][Next]_vars
    /\ WF_vars(Render)
    /\ \A p \in Processors : WF_vars(FeedProgress(p))

\* ------------------------------------------------ the processors' settings
\* The controls of the processors and prepareToPlay, between the render
\* callbacks of a player whose tracks were started.
PitchSliderValues == {-12, 0, 7, 12}

PitchSliderBoth(semitones) ==
    /\ rpc = "idle"
    /\ procs' = [p \in Processors |-> setPitchSemiTones(procs[p], semitones)]
    /\ UNCHANGED auxVars
    /\ UNCHANGED <<state, loopToggle, tracks, variant, rpc, numSamples, out, mix,
                   call, cmdLog>>

\* pitchSlider.onValueChange
PitchSliderChanged(semitones) ==
    /\ rpc = "idle"
    /\ procs' = [procs EXCEPT !["musical"] = setPitchSemiTones(@, semitones)]
    /\ UNCHANGED auxVars
    /\ UNCHANGED <<state, loopToggle, tracks, variant, rpc, numSamples, out, mix,
                   call, cmdLog>>

\* formantCheckbox.onClick
FormantClicked(preserve) ==
    /\ rpc = "idle"
    /\ procs' = [p \in Processors |-> setFormantEnabled(procs[p], preserve)]
    /\ UNCHANGED auxVars
    /\ UNCHANGED <<state, loopToggle, tracks, variant, rpc, numSamples, out, mix,
                   call, cmdLog>>

\* prepareToPlay with a sample rate no stretcher can be made for: an
\* exception of the first prepare leaves prepareToPlay as well
PrepareRefused(throws) ==
    /\ rpc = "idle"
    /\ procs' = [p \in Processors |->
                    IF throws /\ p = "musical" THEN procs[p]
                    ELSE prepareRefused(procs[p], throws)]
    /\ UNCHANGED auxVars
    /\ UNCHANGED <<state, loopToggle, tracks, variant, rpc, numSamples, out, mix,
                   call, cmdLog>>

InitProc ==
    /\ state = "Playing"
    /\ loopToggle = FALSE
    /\ tracks = [t \in Tracks |-> startTrack(InitTrack, FALSE)]
    /\ procs = [p \in Processors |-> InitProcessor]
    /\ variant \in {1, 2}
    /\ rpc = "idle"
    /\ numSamples = 0
    /\ out = <<>>
    /\ mix = [p \in Processors |-> <<>>]
    /\ call = [p \in Processors |-> NoCall]
    /\ cmdLog = <<>>
    /\ conc = NoConc
    /\ mx = NoMix
    /\ tl = NoTimeline
    /\ fm = NoFormat
    /\ tc = NoTempoChange

NextProc ==
    \/ PrepareToPlay
    \/ \E throws \in BOOLEAN : PrepareRefused(throws)
    \/ \E v \in TempoSliderValues : TempoSliderChanged(v)
    \/ \E s \in PitchSliderValues : PitchSliderChanged(s)
    \/ \E b \in BOOLEAN : FormantClicked(b)
    \/ \E n \in 1..MaxBlock : RenderBegin(n)
    \/ \E p \in Processors : ProcessUnprepared(p)
    \/ \E p \in Processors : Feed(p)
    \/ \E p \in Processors : Retrieve(p)
    \/ RenderMerge
    \/ RenderReturn

SpecProc == InitProc /\ [][NextProc]_vars

\* ------------------------------------------- changeState as a function
\* changeState applied to any state and any argument
CSTracks ==
    {[InitTrack EXCEPT !.playing = pl, !.position = pos] :
        pl \in BOOLEAN, pos \in {0, requiredSamples}}

ChangeStateCall(s) ==
    /\ LET w0 == [state |-> state, tracks |-> tracks, trail |-> <<state>>]
           w  == changeState(w0, s, loopToggle)
       IN /\ state' = w.state
          /\ tracks' = w.tracks
          /\ cmdLog' = <<[cmd |-> "changeState", arg |-> s, trail |-> w.trail]>>
    /\ UNCHANGED auxVars
    /\ UNCHANGED <<loopToggle, procs, variant, rpc, numSamples, out, mix, call>>

InitCS ==
    /\ state \in TransportState
    /\ loopToggle \in BOOLEAN
    /\ tracks \in [Tracks -> CSTracks]
    /\ procs = [p \in Processors |-> InitProcessor]
    /\ variant = 1
    /\ rpc = "idle"
    /\ numSamples = 0
    /\ out = <<>>
    /\ mix = [p \in Processors |-> <<>>]
    /\ call = [p \in Processors |-> NoCall]
    /\ cmdLog = <<>>
    /\ conc = NoConc
    /\ mx = NoMix
    /\ tl = NoTimeline
    /\ fm = NoFormat
    /\ tc = NoTempoChange

NextCS == \E s \in TransportState : ChangeStateCall(s)

SpecCS == InitCS /\ [][NextCS]_vars

\* ------------------------- a command and a render callback on two threads
\* The single-file player: changeState on the message thread, one assignment
\* or one switch case per step, and getNextAudioBlock on the audio thread,
\* which reads the plain member `state` without synchronization.
MaxReads == 2

playerVars == <<loopToggle, tracks, procs, variant, rpc, numSamples, out, mix,
                call, cmdLog>>

InitConcurrent ==
    [pc |-> "idle", apc |-> "idle", seen |-> "none", position |-> 0,
     cleared |-> FALSE]

\* playButtonClicked / stopButtonClicked up to "state = newState" of the
\* changeState call they make
ConcCommand(cmd) ==
    /\ conc.pc = "idle"
    /\ LET target == IF cmd = "play" THEN playTarget(state) ELSE stopTarget(state)
       IN /\ target # "none"
          /\ ~sameState(state, target)
          /\ state' = target
    /\ conc' = [conc EXCEPT !.pc = "case"]
    /\ UNCHANGED <<playerVars, mx, tl, fm, tc>>

\* the switch case of the state just assigned: the nested changeState call
\* up to its assignment, or the case's own effect and the return
ConcCase ==
    /\ conc.pc = "case"
    /\ IF cascade(state) # state
       THEN /\ state' = cascade(state)
            /\ UNCHANGED conc
       ELSE /\ conc' = [conc EXCEPT !.pc = "idle",
                                    !.position = IF state = "Stopped" THEN 0 ELSE @]
            /\ UNCHANGED state
    /\ UNCHANGED <<playerVars, mx, tl, fm, tc>>

\* getNextAudioBlock: the read of state in "state != Playing"
ConcRenderRead ==
    /\ conc.apc = "idle"
    /\ conc' = [conc EXCEPT !.apc = "gate", !.seen = state]
    /\ UNCHANGED <<state, playerVars, mx, tl, fm, tc>>

\* getNextAudioBlock: clear and return, or processBlock reading the source
ConcRenderGate ==
    /\ conc.apc = "gate"
    /\ conc' = [conc EXCEPT !.apc = "idle",
                            !.cleared = (conc.seen # "Playing"),
                            !.position = IF conc.seen = "Playing"
                                         THEN Min(@ + 1, MaxReads) ELSE @]
    /\ UNCHANGED <<state, playerVars, mx, tl, fm, tc>>

InitConc ==
    /\ state = "Stopped"
    /\ loopToggle = FALSE
    /\ tracks = [t \in Tracks |-> InitTrack]
    /\ procs = [p \in Processors |-> InitProcessor]
    /\ variant = 1
    /\ rpc = "idle"
    /\ numSamples = 0
    /\ out = <<>>
    /\ mix = [p \in Processors |-> <<>>]
    /\ call = [p \in Processors |-> NoCall]
    /\ cmdLog = <<>>
    /\ conc = InitConcurrent
    /\ mx = NoMix
    /\ tl = NoTimeline
    /\ fm = NoFormat
    /\ tc = NoTempoChange

NextConc ==
    \/ ConcCommand("play")
    \/ ConcCommand("stop")
    \/ ConcCase
    \/ ConcRenderRead
    \/ ConcRenderGate

SpecConc == InitConc /\ [][NextConc]_vars

\* ------------------------------------------ the mixer on sample values
\* mixTracksIntoBuffer with one frame per channel and integer samples:
\* currentVolume is in steps of 1/MaxGain, track t's source delivers the
\* sample 10 * t + c on channel c while it plays and 0 while it does not.
MaxGain == 2
MaxMixSteps == 4
MixFrames == 2

InitMixTrack(perc) ==
    [isPercussive |-> perc, isMuted |-> FALSE, currentVolume |-> MaxGain,
     playing |-> FALSE, position |-> 0, lastBuffer |-> <<>>]

\* the block transportSource.getNextAudioBlock writes
sourceBlock(t, tr) == [c \in Channels |-> IF tr.playing THEN 10 * t + c ELSE 0]

\* AudioBuffer::clear
clearSamples(buffer) == [c \in DOMAIN buffer |-> 0]

skipsNone(tr, percussive) == FALSE

\* "if (track->isPercussive != percussive) continue;"
skipsTrack(tr, percussive) == tr.isPercussive # percussive

gainIgnoringMute(tr) == tr.currentVolume

\* "float volume = track->isMuted ? 0.0f : track->currentVolume;"
effectiveGain(tr) == IF tr.isMuted THEN 0 ELSE tr.currentVolume

readSourceScaled(t, tr) ==
    [tr EXCEPT !.lastBuffer = [c \in Channels |-> sourceBlock(t, tr)[c] * tr.currentVolume],
               !.position = (@ + 1) % MixFrames]

\* lastBuffer.setSize and transportSource.getNextAudioBlock(info)
readSource(t, tr) ==
    [tr EXCEPT !.lastBuffer = sourceBlock(t, tr),
               !.position = (@ + 1) % MixFrames]

\* the loop over the tracks, from track t on; w = [trk, buffer]
RECURSIVE mixLoop(_, _, _)
mixLoop(t, percussive, w) ==
    IF t > NumTracks THEN w
    ELSE IF skipsTrack(w.trk[t], percussive) THEN mixLoop(t + 1, percussive, w)
    ELSE LET tr == readSource(t, w.trk[t])
             volume == effectiveGain(tr)
         IN mixLoop(t + 1, percussive,
                    [trk |-> [w.trk EXCEPT ![t] = tr],
                     buffer |-> [c \in Channels |->
                                   w.buffer[c] + tr.lastBuffer[c] * volume]])

\* mixTracksIntoBuffer(percussive, buffer)
mixSamples(percussive, trk, buffer) ==
    mixLoop(1, percussive, [trk |-> trk, buffer |-> clearSamples(buffer)])

\* Track::getPeakLevel
getPeakLevel(tr) == IF tr.lastBuffer = <<>> THEN 0 ELSE tr.lastBuffer[1]

MixStep == /\ mx.steps < MaxMixSteps
           /\ UNCHANGED <<state, playerVars, conc, tl, fm, tc>>

MixCall(percussive) ==
    /\ MixStep
    /\ LET w == mixSamples(percussive, mx.trk, mx.buffer)
       IN mx' = [mx EXCEPT !.trk = w.trk, !.buffer = w.buffer,
                           !.before = mx.buffer, !.pc = "mixed",
                           !.arg = percussive, !.steps = @ + 1]

\* volumeSlider.onValueChange
VolumeChanged(t, v) ==
    /\ MixStep
    /\ v # mx.trk[t].currentVolume
    /\ mx' = [mx EXCEPT !.trk[t].currentVolume = v, !.pc = "edited", !.steps = @ + 1]

\* muteButton.onClick
MuteClicked(t) ==
    /\ MixStep
    /\ mx' = [mx EXCEPT !.trk[t].isMuted = ~@, !.pc = "edited", !.steps = @ + 1]

\* play / pause command: every transport source started or stopped
MixTransport ==
    /\ MixStep
    /\ mx' = [mx EXCEPT !.trk = [t \in Tracks |-> [mx.trk[t] EXCEPT !.playing = ~@]],
                        !.pc = "edited", !.steps = @ + 1]

\* timerCallback: the meter labels
MixTimerTick ==
    /\ MixStep
    /\ mx' = [mx EXCEPT !.peak = [t \in Tracks |-> getPeakLevel(mx.trk[t])],
                        !.pc = "ticked", !.steps = @ + 1]

InitMix ==
    /\ state = "Stopped"
    /\ loopToggle = FALSE
    /\ tracks = [t \in Tracks |-> InitTrack]
    /\ procs = [p \in Processors |-> InitProcessor]
    /\ variant = 1
    /\ rpc = "idle"
    /\ numSamples = 0
    /\ out = <<>>
    /\ mix = [p \in Processors |-> <<>>]
    /\ call = [p \in Processors |-> NoCall]
    /\ cmdLog = <<>>
    /\ conc = NoConc
    /\ tl = NoTimeline
    /\ fm = NoFormat
    /\ tc = NoTempoChange
    /\ \E perc \in [Tracks -> BOOLEAN] :
          mx = [pc |-> "ready", arg |-> FALSE, steps |-> 0,
                trk |-> [t \in Tracks |-> InitMixTrack(perc[t])],
                buffer |-> [c \in Channels |-> 0],
                before |-> [c \in Channels |-> 0],
                peak |-> [t \in Tracks |-> 0]]

NextMix ==
    \/ \E b \in BOOLEAN : MixCall(b)
    \/ \E t \in Tracks : \E v \in 0..MaxGain : VolumeChanged(t, v)
    \/ \E t \in Tracks : MuteClicked(t)
    \/ MixTransport
    \/ MixTimerTick

SpecMix == InitMix /\ [][NextMix]_vars

\* ------------------------------------- the timeline and queued track starts
\* Times are in milliseconds.  app = "timeline" is the timeline-only
\* program, app = "player" the player with per-track controls and
\* checkQueuedTracks.
MaxTimeline == 2500

originalTempo == 120
beatsPerBar == 4

WallDeltas == {250, 500}
TimelineSliderValues == {50, 100, 200}

secondsPerBeat == 60000 \div originalTempo
secondsPerBar == secondsPerBeat * beatsPerBar

\* "((int)(seconds / secondsPerBeat) % beatsPerBar) + 1"
BeatIndex(seconds) == ((seconds \div secondsPerBeat) % beatsPerBar) + 1

\* queuedBar: the bar (from 0) the timeline was in when the track was queued
InitTimelineTrack == [playing |-> FALSE, queuedToPlay |-> FALSE, queuedBar |-> -1]

InitTimeline(app) ==
    [pc |-> "idle", app |-> app, transportRunning |-> FALSE,
     timelineSeconds |-> 0, lastCallbackSet |-> FALSE, tempoSlider |-> 100,
     quantizeToggle |-> FALSE, beat |-> 1,
     bpmLabel |-> originalTempo * 100, procTempo |-> 100,
     trk |-> [t \in Tracks |-> InitTimelineTrack]]

\* the ratio a tick multiplies by: the timeline-only program falls back to
\* 1.0 for a ratio <= 0, the player uses the slider value as it is
tickRatio(app, value) ==
    IF app = "timeline" /\ value <= 0 THEN 100 ELSE value

unadjustedDelta(realDelta, timeRatio) == realDelta

\* "realDelta * timeRatio"
adjustedDelta(realDelta, timeRatio) == (realDelta * timeRatio) \div 100

\* timelineSeconds after the timer callback's update
tickedTimeline(t, realDelta) ==
    IF t.transportRunning /\ t.lastCallbackSet
    THEN t.timelineSeconds + adjustedDelta(realDelta, tickRatio(t.app, t.tempoSlider))
    ELSE t.timelineSeconds

beatAny(beat) == TRUE

beatIsZero(beat) == beat = 0

\* "if (beat == 1)"
beatIsOne(beat) == beat = 1

startQueuedKeepingFlag(tr) ==
    IF tr.queuedToPlay THEN [tr EXCEPT !.playing = TRUE] ELSE tr

\* the queued start of one track
startQueued(tr) ==
    IF tr.queuedToPlay
    THEN [tr EXCEPT !.playing = TRUE, !.queuedToPlay = FALSE, !.queuedBar = -1]
    ELSE tr

\* checkQueuedTracks
checkQueuedTracks(trk, seconds) ==
    IF beatIsOne(BeatIndex(seconds))
    THEN [t \in Tracks |-> startQueued(trk[t])]
    ELSE trk

\* what the timeline's handlers leave alone; only playButtonClicked and
\* stopButtonClicked assign state
TimelineStep == UNCHANGED <<playerVars, conc, mx, fm, tc>>

\* startTransportButton.onClick
StartTimeline ==
    /\ TimelineStep
    /\ UNCHANGED state
    /\ tl' = [tl EXCEPT !.transportRunning = TRUE, !.lastCallbackSet = TRUE,
                        !.pc = "idle"]

stoppedKeepingPosition(t) == [t EXCEPT !.transportRunning = FALSE]

\* "transportRunning = false; timelineSeconds = 0.0;"
stoppedTimeline(t) == [t EXCEPT !.transportRunning = FALSE, !.timelineSeconds = 0]

\* stopTransportButton.onClick
StopTimeline ==
    /\ TimelineStep
    /\ UNCHANGED state
    /\ tl' = [stoppedTimeline(tl) EXCEPT !.pc = "idle"]

referenceTempo(app, value) == originalTempo * 100

\* getAdjustedTempo with the slider at value, in hundredths of a beat per
\* minute: the timeline program replaces a ratio <= 0 by 1.0, the player
\* multiplies by the slider value as it is
getAdjustedTempo(app, value) ==
    IF app = "timeline" /\ value <= 0 THEN originalTempo * 100
    ELSE originalTempo * value

\* "float inverted = 2.0f - tempoSlider.getValue();"
invertedRatio(value) == 200 - value

\* tempoSlider.onValueChange: the timeline program shows the adjusted tempo,
\* the player hands the inverted value to setTempoRatio of both processors
TimelineTempo(v) ==
    /\ TimelineStep
    /\ UNCHANGED state
    /\ v # tl.tempoSlider
    /\ tl' = [tl EXCEPT !.tempoSlider = v, !.pc = "idle",
                        !.bpmLabel = IF tl.app = "timeline"
                                     THEN getAdjustedTempo(tl.app, v) ELSE @,
                        !.procTempo = IF tl.app = "player"
                                      THEN invertedRatio(v) ELSE @]

\* the quantize toggle clicked
QuantizeClicked ==
    /\ TimelineStep
    /\ UNCHANGED state
    /\ tl.app = "player"
    /\ tl' = [tl EXCEPT !.quantizeToggle = ~@, !.pc = "idle"]

\* playPauseButton.onClick of track t
TrackPlayPause(t) ==
    /\ TimelineStep
    /\ UNCHANGED state
    /\ tl.app = "player"
    /\ tl' = [tl EXCEPT !.pc = "idle",
                        !.trk[t] = IF @.playing THEN [@ EXCEPT !.playing = FALSE]
                                   ELSE IF tl.quantizeToggle
                                   THEN [@ EXCEPT !.queuedToPlay = TRUE,
                                                  !.queuedBar = tl.timelineSeconds \div secondsPerBar]
                                   ELSE [@ EXCEPT !.playing = TRUE]]

\* stopButton.onClick of track t
TrackStop(t) ==
    /\ TimelineStep
    /\ UNCHANGED state
    /\ tl.app = "player"
    /\ tl' = [tl EXCEPT !.pc = "idle", !.trk[t] = InitTimelineTrack]

\* playButtonClicked of the player: every track started, "state = Playing"
PlayAll ==
    /\ TimelineStep
    /\ tl.app = "player"
    /\ state' = "Playing"
    /\ tl' = [tl EXCEPT !.pc = "idle",
                        !.trk = [t \in Tracks |-> [tl.trk[t] EXCEPT !.playing = TRUE]]]

\* stopButtonClicked of the player: every track stopped and unqueued,
\* "state = Stopped"
StopAll ==
    /\ TimelineStep
    /\ tl.app = "player"
    /\ state' = "Stopped"
    /\ tl' = [tl EXCEPT !.pc = "idle", !.trk = [t \in Tracks |-> InitTimelineTrack]]

\* timerCallback with realDelta milliseconds since lastCallbackTime
TimerTick(realDelta) ==
    /\ TimelineStep
    /\ UNCHANGED state
    /\ tickedTimeline(tl, realDelta) <= MaxTimeline
    /\ LET seconds == tickedTimeline(tl, realDelta)
       IN tl' = [tl EXCEPT
                   !.pc = "ticked",
                   !.timelineSeconds = seconds,
                   !.lastCallbackSet = IF tl.transportRunning THEN TRUE ELSE @,
                   !.beat = BeatIndex(seconds),
                   !.bpmLabel = IF tl.transportRunning
                                THEN getAdjustedTempo(tl.app, tl.tempoSlider) ELSE @,
                   !.trk = IF tl.app = "player"
                           THEN checkQueuedTracks(tl.trk, seconds) ELSE @]

InitTL ==
    /\ state = "Stopped"
    /\ loopToggle = FALSE
    /\ tracks = [t \in Tracks |-> InitTrack]
    /\ procs = [p \in Processors |-> InitProcessor]
    /\ variant = 1
    /\ rpc = "idle"
    /\ numSamples = 0
    /\ out = <<>>
    /\ mix = [p \in Processors |-> <<>>]
    /\ call = [p \in Processors |-> NoCall]
    /\ cmdLog = <<>>
    /\ conc = NoConc
    /\ mx = NoMix
    /\ \E app \in {"timeline", "player"} : tl = InitTimeline(app)
    /\ fm = NoFormat
    /\ tc = NoTempoChange

NextTL ==
    \/ StartTimeline
    \/ StopTimeline
    \/ \E v \in TimelineSliderValues : TimelineTempo(v)
    \/ QuantizeClicked
    \/ \E t \in Tracks : TrackPlayPause(t)
    \/ \E t \in Tracks : TrackStop(t)
    \/ PlayAll
    \/ StopAll
    \/ \E d \in WallDeltas : TimerTick(d)

SpecTL == InitTL /\ [][NextTL]_vars

\* by how much timerCallback moves the timeline
tickAdvance(t, realDelta) == tickedTimeline(t, realDelta) - t.timelineSeconds

\* a timerCallback that moves the timeline by less than one beat
ShortTick(realDelta) ==
    /\ tl # NoTimeline
    /\ tickAdvance(tl, realDelta) < secondsPerBeat
    /\ TimerTick(realDelta)

NextShortTicks ==
    \/ StartTimeline
    \/ StopTimeline
    \/ \E v \in TimelineSliderValues : TimelineTempo(v)
    \/ QuantizeClicked
    \/ \E t \in Tracks : TrackPlayPause(t)
    \/ \E t \in Tracks : TrackStop(t)
    \/ PlayAll
    \/ StopAll
    \/ \E d \in WallDeltas : ShortTick(d)

\* the timer started in the constructor (startTimerHz(20)) keeps calling
\* timerCallback
FairSpecTL ==
    /\ InitTL /\ [][NextShortTicks]_vars
    /\ WF_vars(\E d \in WallDeltas : ShortTick(d))

\* --------------------------------- the timeline label and the time signature
\* getFormattedTimeline and timeSignatureBox.onTextChange.  A juce::String
\* is a sequence of characters.  The double `seconds` is [sec, ms]: whole
\* seconds and milliseconds; tempos are those whose beat is a whole divisor
\* of 1000 ms, so that every quotient below is exact.  entry is beatsPerBar
\* as the last handler found it.
IntMax == 2147483647

FormatTempos == {120, 240}
FormatSeconds == {59, 125, IntMax \div 1000 + 1, IntMax \div 2 + 1}
FormatMillis == {400, 999}
FormatOverrides == {3, 4}
TimeSignatureTexts ==
    { <<"3", "/", "4">>, <<"1", "2", "/", "8">>, <<"0", "/", "4">>,
      <<"-", "2", "/", "4">>, <<"x", "/", "4">>, <<"3", "x", "/", "4">>,
      <<"3">>, <<"3", "/", "4", "/", "4">>, <<"5", "/">>, <<"/", "4">>, <<>> }

DigitChars == <<"0", "1", "2", "3", "4", "5", "6", "7", "8", "9">>

RECURSIVE decimal(_)
decimal(n) ==
    IF n < 10 THEN <<DigitChars[n + 1]>>
    ELSE Append(decimal(n \div 10), DigitChars[(n % 10) + 1])

\* juce::String (int)
String(n) == IF n < 0 THEN <<"-">> \o decimal(-n) ELSE decimal(n)

\* String::paddedLeft
paddedLeft(str, padChar, minLength) ==
    [i \in 1..(minLength - Len(str)) |-> padChar] \o str

\* whether (int)(seconds * 1000.0) has a value: the product is within int
fitsInt(t) ==
    \/ t.sec < IntMax \div 1000
    \/ t.sec = IntMax \div 1000 /\ t.ms <= IntMax % 1000

\* "((int)(seconds * 1000.0)) % 1000": the remainders the conversion can
\* leave.  Out of range the conversion is undefined; builds give INT_MAX
\* (saturating conversion) or INT_MIN (the x86 indefinite value), and % keeps
\* the sign of the dividend.
millisOutcomes(t) ==
    IF fitsInt(t) THEN {t.ms}
    ELSE {IntMax % 1000, -((IntMax % 1000) + 1)}

\* secondsPerBeat = 60.0 / bpm in milliseconds, and the beats in a second
msPerBeat(bpm) == 60000 \div bpm
beatsPerSecond(bpm) == 1000 \div msPerBeat(bpm)

\* whether (int)(seconds / secondsPerBeat) has a value: the quotient is
\* within int
fitsBeats(t, bpm) ==
    LET high == IntMax \div beatsPerSecond(bpm)
    IN \/ t.sec < high
       \/ t.sec = high /\ t.ms \div msPerBeat(bpm) <= IntMax % beatsPerSecond(bpm)

\* seconds / secondsPerBeat rounded down, for a quotient within int
wholeBeats(t, bpm) == t.sec * beatsPerSecond(bpm) + t.ms \div msPerBeat(bpm)

\* "(int)(seconds / secondsPerBeat)": out of range the conversion is
\* undefined, and builds give INT_MAX or INT_MIN as for millis
beatsOutcomes(t, bpm) ==
    IF fitsBeats(t, bpm) THEN {wholeBeats(t, bpm)} ELSE {IntMax, -IntMax - 1}

\* "(int)(seconds / secondsPerBar)" with secondsPerBar = secondsPerBeat *
\* beatsPerBar: the quotient rounded down, worked out from the whole seconds
\* so that no intermediate value is larger than the quotient.  It is within
\* int for every time used here, and so is "(int)seconds".
wholeBars(t, bpm, member) ==
    LET msPerBar == msPerBeat(bpm) * member
    IN (t.sec \div msPerBar) * 1000 + ((t.sec % msPerBar) * 1000 + t.ms) \div msPerBar

\* a % b of int, b > 0: the remainder has the sign of a
cRem(a, b) == IF a % b = 0 \/ a >= 0 THEN a % b ELSE (a % b) - b

\* what the conversions to int of one getFormattedTimeline call can give
conversions(t, bpm) ==
    [beats : beatsOutcomes(t, bpm), millis : millisOutcomes(t)]

\* getFormattedTimeline(seconds, bpm, beatsPerBarOverride) of a component
\* whose member beatsPerBar is `member`, conv being what the conversions to
\* int gave: bar is "(int)(seconds / secondsPerBar) + 1", beat is
\* "((int)(seconds / secondsPerBeat) % beatsPerBar) + 1", the time is
\* "(int)seconds / 60", "(int)seconds % 60" and millis.  beatsPerBarOverride
\* is not read.
getFormattedTimeline(t, bpm, beatsPerBarOverride, member, conv) ==
    [bar  |-> wholeBars(t, bpm, member) + 1,
     beat |-> cRem(conv.beats, member) + 1,
     time |-> String(t.sec \div 60) \o <<":">>
              \o paddedLeft(String(t.sec % 60), "0", 2) \o <<".">>
              \o paddedLeft(String(conv.millis), "0", 3)]

\* String::containsChar
containsChar(text, ch) == \E i \in 1..Len(text) : text[i] = ch

\* StringArray::fromTokens(text, "/", ""): the pieces between the breaks,
\* empty pieces included
RECURSIVE fromTokens(_, _)
fromTokens(text, break) ==
    IF ~containsChar(text, break) THEN <<text>>
    ELSE LET i == CHOOSE k \in 1..Len(text) :
                     text[k] = break /\ \A j \in 1..(k - 1) : text[j] # break
         IN <<SubSeq(text, 1, i - 1)>> \o fromTokens(SubSeq(text, i + 1, Len(text)), break)

DigitValue(ch) == CHOOSE d \in 0..9 : DigitChars[d + 1] = ch
IsDigit(ch) == \E d \in 0..9 : DigitChars[d + 1] = ch

\* the value of the leading digits of str
RECURSIVE leadingDigits(_, _)
leadingDigits(str, v) ==
    IF str = <<>> \/ ~IsDigit(Head(str)) THEN v
    ELSE leadingDigits(Tail(str), v * 10 + DigitValue(Head(str)))

\* String::getIntValue: an optional sign and the digits that follow it
getIntValue(str) ==
    IF str # <<>> /\ Head(str) = "-" THEN -leadingDigits(Tail(str), 0)
    ELSE leadingDigits(str, 0)

acceptsAny(app, parts) == TRUE

\* "if (top > 0 && bottom > 0)" of the timeline program, "if (top > 0)" of
\* the player
acceptsSignature(app, parts) ==
    /\ getIntValue(parts[1]) > 0
    /\ app = "timeline" => getIntValue(parts[2]) > 0

\* timeSignatureBox.onTextChange: beatsPerBar after the text changed
onTextChange(app, member, text) ==
    IF containsChar(text, "/")
    THEN LET parts == fromTokens(text, "/")
         IN IF Len(parts) = 2 /\ acceptsSignature(app, parts)
            THEN getIntValue(parts[1])
            ELSE member
    ELSE member

InitFormat(app) ==
    [pc |-> "idle", app |-> app, beatsPerBar |-> 4, entry |-> 4,
     text |-> <<"4", "/", "4">>,
     args |-> [t |-> [sec |-> 0, ms |-> 0], bpm |-> 120, override |-> 4],
     label |-> [bar |-> 1, beat |-> 1,
                time |-> <<"0", ":", "0", "0", ".", "0", "0", "0">>]]

FormatStep == UNCHANGED <<state, playerVars, conc, mx, tl, tc>>

\* the text of timeSignatureBox changed
TimeSignatureChanged(text) ==
    /\ FormatStep
    /\ fm' = [fm EXCEPT !.pc = "signed", !.text = text,
                        !.entry = fm.beatsPerBar,
                        !.beatsPerBar = onTextChange(fm.app, @, text)]

\* transportLabel.setText(getFormattedTimeline(seconds, bpm, override))
FormatCall(t, bpm, beatsPerBarOverride) ==
    /\ FormatStep
    /\ \E conv \in conversions(t, bpm) :
          fm' = [fm EXCEPT
                   !.pc = "formatted", !.entry = fm.beatsPerBar,
                   !.args = [t |-> t, bpm |-> bpm, override |-> beatsPerBarOverride],
                   !.label = getFormattedTimeline(t, bpm, beatsPerBarOverride,
                                                  fm.beatsPerBar, conv)]

InitFmt ==
    /\ state = "Stopped"
    /\ loopToggle = FALSE
    /\ tracks = [t \in Tracks |-> InitTrack]
    /\ procs = [p \in Processors |-> InitProcessor]
    /\ variant = 1
    /\ rpc = "idle"
    /\ numSamples = 0
    /\ out = <<>>
    /\ mix = [p \in Processors |-> <<>>]
    /\ call = [p \in Processors |-> NoCall]
    /\ cmdLog = <<>>
    /\ conc = NoConc
    /\ mx = NoMix
    /\ tl = NoTimeline
    /\ \E app \in {"timeline", "player"} : fm = InitFormat(app)
    /\ tc = NoTempoChange

NextFmt ==
    \/ \E text \in TimeSignatureTexts : TimeSignatureChanged(text)
    \/ \E sec \in FormatSeconds, ms \in FormatMillis, bpm \in FormatTempos,
          o \in FormatOverrides :
          FormatCall([sec |-> sec, ms |-> ms], bpm, o)

SpecFmt == InitFmt /\ [][NextFmt]_vars


\* -------------------- a tempo change and a render callback on two threads
\* The player's tempoSlider.onValueChange on the message thread, one
\* setTempoRatio call per step, and getNextAudioBlock on the audio thread,
\* one processBlock call per step.  drum and musical are the time ratios of
\* the two stretchers; used is the ratio each processBlock call of the
\* callback in progress ran with (-1: it has not run).
TempoRaceValues == {50, 100, 200}

NotUsed == [p \in Processors |-> -1]

InitTempoChange ==
    [pc |-> "idle", apc |-> "idle", inverted |-> 100, drum |-> 100,
     musical |-> 100, used |-> NotUsed]

TempoRaceStep == UNCHANGED <<state, playerVars, conc, mx, tl, fm>>

\* tempoSlider.onValueChange up to the return of drumProcessor.setTempoRatio
TempoChangeDrum(v) ==
    /\ TempoRaceStep
    /\ tc.pc = "idle"
    /\ tc' = [tc EXCEPT !.pc = "musical", !.inverted = invertedRatio(v),
                        !.drum = invertedRatio(v)]

\* musicalProcessor.setTempoRatio(inverted) and the handler's return
TempoChangeMusical ==
    /\ TempoRaceStep
    /\ tc.pc = "musical"
    /\ tc' = [tc EXCEPT !.pc = "idle", !.musical = tc.inverted]

\* getNextAudioBlock up to the first processBlock call
TempoRenderBegin ==
    /\ TempoRaceStep
    /\ tc.apc = "idle"
    /\ tc' = [tc EXCEPT !.apc = "drum", !.used = NotUsed]

\* drumProcessor.processBlock
TempoRenderDrum ==
    /\ TempoRaceStep
    /\ tc.apc = "drum"
    /\ tc' = [tc EXCEPT !.apc = "musical", !.used["drum"] = tc.drum]

\* musicalProcessor.processBlock
TempoRenderMusical ==
    /\ TempoRaceStep
    /\ tc.apc = "musical"
    /\ tc' = [tc EXCEPT !.apc = "merge", !.used["musical"] = tc.musical]

\* the merge loop and the return
TempoRenderReturn ==
    /\ TempoRaceStep
    /\ tc.apc = "merge"
    /\ tc' = [tc EXCEPT !.apc = "idle"]

InitTempoRace ==
    /\ state = "Playing"
    /\ loopToggle = FALSE
    /\ tracks = [t \in Tracks |-> startTrack(InitTrack, FALSE)]
    /\ procs = [p \in Processors |-> prepare(InitProcessor)]
    /\ variant = 1
    /\ rpc = "idle"
    /\ numSamples = 0
    /\ out = <<>>
    /\ mix = [p \in Processors |-> <<>>]
    /\ call = [p \in Processors |-> NoCall]
    /\ cmdLog = <<>>
    /\ conc = NoConc
    /\ mx = NoMix
    /\ tl = NoTimeline
    /\ fm = NoFormat
    /\ tc = InitTempoChange

NextTempoRace ==
    \/ \E v \in TempoRaceValues : TempoChangeDrum(v)
    \/ TempoChangeMusical
    \/ TempoRenderBegin
    \/ TempoRenderDrum
    \/ TempoRenderMusical
    \/ TempoRenderReturn

SpecTempoRace == InitTempoRace /\ [][NextTempoRace]_vars

\* ------------------------------------------------------------------ claims
LastCmd == cmdLog[Len(cmdLog)]
PlayFromStopped == [cmd |-> "play", trail |-> <<"Stopped", "Starting", "Playing">>]
PlayFromPlaying == [cmd |-> "play", trail |-> <<"Playing", "Pausing", "Paused">>]
PlayFromPaused == [cmd |-> "play", trail |-> <<"Paused", "Starting", "Playing">>]
Extracted(p) == call[p].got # -1
AllZero(buf) == \A c \in DOMAIN buf : \A i \in DOMAIN buf[c] : buf[c][i] = "zero"

\* C1: a processBlock call on a prepared processor retrieves only when
\* available() is at least outSamples, it delivers all outSamples frames, and
\* when fewer were available on entry the input provider was invoked first.
C1_ExtractOnlyWhenBuffered ==
    \A p \in Processors :
        Extracted(p) =>
            /\ call[p].atExtract >= numSamples
            /\ call[p].got = numSamples
            /\ (call[p].entryAvail < numSamples => call[p].pulls > 0)

C1_Witness ==
    /\ state = "Playing"
    /\ Extracted("drum") /\ Extracted("musical")
    /\ \A p \in Processors : call[p].entryAvail < numSamples /\ call[p].pulls > 0
    /\ numSamples = MaxBlock

\* C2: every render callback that has begun returns.
C2_RenderTerminates == (rpc # "idle") ~> (rpc = "idle")

\* C3: when the render callback returns, every sample of every channel of
\* the output block has been written (zero or audio), whatever the transport
\* state and whether or not the processors are prepared.
C3_OutputFullyWritten ==
    rpc = "return" =>
        /\ DOMAIN out = Channels
        /\ \A c \in Channels :
              /\ DOMAIN out[c] = 1..numSamples
              /\ \A i \in 1..numSamples : out[c][i] \in {"zero", "audio"}

C3_Witness ==
    /\ rpc = "return"
    /\ state = "Playing"
    /\ numSamples = MaxBlock
    /\ \A c \in Channels : \A i \in 1..numSamples : out[c][i] = "audio"

\* C4: a render callback that runs while the transport state is not Playing
\* returns an all-zero block.
C4_SilentWhenNotPlaying ==
    (rpc = "return" /\ state # "Playing") => AllZero(out)

\* C5: after every play / stop command the transport state is Stopped,
\* Playing or Paused, never Starting, Pausing or Stopping.
C5_SettledAfterCommand == state \in Settled

C5_Witness ==
    /\ Len(cmdLog) = 2
    /\ cmdLog[1] = PlayFromPaused
    /\ cmdLog[2] = [cmd |-> "stop", trail |-> <<"Playing", "Stopping", "Stopped">>]
    /\ state = "Stopped"

\* C6: play() issued in Stopped or Paused ends in Playing with every track
\* playing and the looping flag of its reader source and of its transport
\* source equal to the loop toggle.
C6_PlayStartsAllTracks ==
    [][(PlayButtonClicked /\ state \in {"Stopped", "Paused"}) =>
         /\ state' = "Playing"
         /\ \A t \in Tracks :
               /\ tracks'[t].playing
               /\ tracks'[t].readerLooping = loopToggle
               /\ tracks'[t].transportLooping = loopToggle]_vars

C6_Witness ==
    /\ cmdLog # <<>>
    /\ LastCmd = PlayFromPaused
    /\ state = "Playing"
    /\ loopToggle
    /\ \A t \in Tracks : tracks[t].playing /\ tracks[t].readerLooping
                         /\ tracks[t].transportLooping

\* C7: play() issued in Playing ends in Paused with every track stopped at
\* its position; nothing moves a position while Paused, and the next play()
\* starts every track at that position.
C7_PauseKeepsPosition ==
    [][/\ (PlayButtonClicked /\ state = "Playing") =>
            /\ state' = "Paused"
            /\ \A t \in Tracks : /\ ~tracks'[t].playing
                                 /\ tracks'[t].position = tracks[t].position
       /\ (state = "Paused" /\ state' # "Stopped") =>
            \A t \in Tracks : tracks'[t].position = tracks[t].position
       /\ (PlayButtonClicked /\ state = "Paused") =>
            \A t \in Tracks : tracks'[t].playing]_vars

C7_Witness ==
    /\ Len(cmdLog) = 2
    /\ cmdLog[1] = PlayFromPlaying
    /\ cmdLog[2] = PlayFromPaused
    /\ state = "Playing"
    /\ \A t \in Tracks : tracks[t].playing /\ tracks[t].position = requiredSamples

\* C8: stop() ends in Stopped with every track stopped at position 0; from
\* Paused the state goes straight to Stopped, from any other state through
\* Stopping.
C8_StopRewinds ==
    [][StopButtonClicked =>
         /\ state' = "Stopped"
         /\ \A t \in Tracks : ~tracks'[t].playing /\ tracks'[t].position = 0
         /\ cmdLog'[Len(cmdLog')].trail =
               IF state = "Paused" THEN <<"Paused", "Stopped">>
               ELSE <<state, "Stopping", "Stopped">>]_vars

C8_Witness ==
    /\ Len(cmdLog) = 2
    /\ cmdLog[1] = PlayFromStopped
    /\ cmdLog[2] = [cmd |-> "stop", trail |-> <<"Playing", "Stopping", "Stopped">>]
    /\ state = "Stopped"
    /\ \A t \in Tracks : ~tracks[t].playing /\ tracks[t].position = 0
    /\ \E t \in Tracks : tracks[t].lastBuffer = "audio"

\* C9 as stated: a play() that follows a play() from Stopped is ignored.
C9_PlayIdempotent ==
    [][(PlayButtonClicked /\ cmdLog # <<>> /\ LastCmd = PlayFromStopped) =>
         (state' = "Playing" /\ tracks' = tracks)]_vars

\* C9 amended: play() toggles; a play() that follows a play() from Stopped
\* pauses: the state becomes Paused and every track is stopped at its
\* position.
C9_SecondPlayPauses ==
    [][(PlayButtonClicked /\ cmdLog # <<>> /\ LastCmd = PlayFromStopped) =>
         /\ state' = "Paused"
         /\ \A t \in Tracks : /\ ~tracks'[t].playing
                              /\ tracks'[t].position = tracks[t].position]_vars

C9_Witness ==
    /\ cmdLog = <<PlayFromStopped, PlayFromPlaying>>
    /\ state = "Paused"
    /\ \A t \in Tracks : ~tracks[t].playing

\* C10: changeState(s) called while state = s leaves the state and every
\* track as they are.
C10_SameStateNoOp ==
    [][\A s \in TransportState :
          (ChangeStateCall(s) /\ state = s) => (state' = s /\ tracks' = tracks)]_vars

C10_Witness ==
    /\ cmdLog # <<>>
    /\ LastCmd.cmd = "changeState"
    /\ LastCmd.arg = "Stopped"
    /\ LastCmd.trail = <<"Stopped">>
    /\ state = "Stopped"
    /\ \A t \in Tracks : tracks[t].playing /\ tracks[t].position = requiredSamples

\* C11: the value of state that a render callback reads, while a play or
\* stop command runs on the other thread, is Stopped, Playing or Paused.
C11_RenderReadsSettled == conc.seen \in Settled \cup {"none"}

\* C12 as stated: the time ratio of a prepared processor's stretcher is the
\* last ratio passed to setTempoRatio when that is positive, and 1.0 when it
\* is not.
C12_NonPositiveRatioClamped ==
    \A p \in Processors :
        procs[p].stretcher =>
            procs[p].timeRatio = IF procs[p].currentTempo > 0
                                 THEN procs[p].currentTempo ELSE 100

\* C13: the retrieve of a processBlock call takes exactly outSamples frames
\* out of the stretcher and writes exactly outSamples frames: once a call has
\* retrieved, available() is available() before the retrieve minus
\* outSamples, and not negative.
C13_RetrieveExactlyOutSamples ==
    \A p \in Processors :
        Extracted(p) =>
            /\ procs[p].available = call[p].atExtract - numSamples
            /\ procs[p].available >= 0
            /\ call[p].got = numSamples
            /\ \A c \in Channels : \A i \in 1..numSamples :
                   mix[p][c][i] # "stale"

C13_Witness ==
    /\ rpc = "musical"
    /\ numSamples = MaxBlock
    /\ Extracted("drum")
    /\ call["drum"].atExtract > numSamples
    /\ procs["drum"].available = call["drum"].atExtract - numSamples

\* C14: processBlock on a processor without a stretcher clears its whole
\* output buffer, does not run the input provider (no track is read) and
\* leaves the processor's stored settings as they are.
C14_UnpreparedClearsOnly ==
    [][\A p \in Processors :
          ProcessUnprepared(p) =>
              /\ DOMAIN mix'[p] = Channels
              /\ \A c \in Channels : DOMAIN mix'[p][c] = 1..numSamples
              /\ AllZero(mix'[p])
              /\ call'[p].pulls = 0
              /\ tracks' = tracks
              /\ procs' = procs]_vars

C14_Witness ==
    /\ rpc = "musical"
    /\ numSamples = MaxBlock
    /\ state = "Playing"
    /\ ~procs["drum"].stretcher
    /\ procs["drum"].currentTempo # 100
    /\ AllZero(mix["drum"])
    /\ \A t \in Tracks : tracks[t].playing /\ tracks[t].position = 0

\* the tracks of one routing group, and the sum the mixer is to produce
Group(trk, percussive) == {t \in Tracks : trk[t].isPercussive = percussive}

RECURSIVE GroupSum(_, _, _)
GroupSum(trk, S, c) ==
    IF S = {} THEN 0
    ELSE LET t == CHOOSE x \in S : TRUE
         IN (IF trk[t].isMuted THEN 0 ELSE trk[t].currentVolume) * sourceBlock(t, trk[t])[c]
            + GroupSum(trk, S \ {t}, c)

\* C15: a mix for one group reads the source of exactly the tracks of that
\* group and leaves every other track untouched; every track is in exactly
\* one of the two groups, so the two mixes of a render read disjoint tracks
\* and together read every track.
C15_MixRoutesByGroup ==
    [][\A b \in BOOLEAN :
          MixCall(b) =>
              /\ \A t \in Tracks :
                    IF t \in Group(mx.trk, b)
                    THEN mx'.trk[t].position = (mx.trk[t].position + 1) % MixFrames
                    ELSE mx'.trk[t] = mx.trk[t]
              /\ Group(mx.trk, b) \cap Group(mx.trk, ~b) = {}
              /\ Group(mx.trk, b) \cup Group(mx.trk, ~b) = Tracks]_vars

C15_Witness ==
    /\ mx.pc = "mixed"
    /\ mx.arg = TRUE
    /\ \E t, u \in Tracks :
          /\ mx.trk[t].isPercussive /\ ~mx.trk[u].isPercussive
          /\ mx.trk[t].playing /\ mx.trk[u].playing
          /\ mx.trk[t].position = 1 /\ mx.trk[t].lastBuffer # <<>>
          /\ mx.trk[u].position = 0 /\ mx.trk[u].lastBuffer = <<>>
    /\ mx.buffer[1] > 0

\* C16: after a mixer call every channel of the buffer is the sum, over the
\* tracks of the group, of (muted ? 0 : gain) times the sample read from the
\* track; what the buffer held before contributes nothing, and an empty
\* group gives zero.
C16_MixIsGainWeightedSum ==
    [][\A b \in BOOLEAN :
          MixCall(b) =>
              /\ DOMAIN mx'.buffer = Channels
              /\ \A c \in Channels :
                    mx'.buffer[c] = GroupSum(mx.trk, Group(mx.trk, b), c)]_vars

C16_Witness ==
    /\ mx.pc = "mixed"
    /\ mx.before[1] > 0
    /\ \E t, u \in Group(mx.trk, mx.arg) :
          /\ t # u
          /\ mx.trk[t].isMuted /\ mx.trk[t].playing
          /\ ~mx.trk[u].isMuted /\ mx.trk[u].playing
          /\ mx.buffer = [c \in Channels |-> mx.trk[u].currentVolume * (10 * u + c)]

\* C17: a mixer call stores in lastBuffer of each track of the group the
\* block read from its source, before gain and mute; it leaves lastBuffer of
\* the other tracks alone; and no step other than a mixer call (volume, mute,
\* transport command, timer tick) changes any lastBuffer.
C17_MeterHoldsSourceBlock ==
    [][/\ \A b \in BOOLEAN :
             MixCall(b) =>
                 \A t \in Tracks :
                     mx'.trk[t].lastBuffer =
                         IF t \in Group(mx.trk, b) THEN sourceBlock(t, mx.trk[t])
                         ELSE mx.trk[t].lastBuffer
       /\ (\E t \in Tracks : mx'.trk[t].lastBuffer # mx.trk[t].lastBuffer)
             => \E b \in BOOLEAN : MixCall(b)]_vars

C17_Witness ==
    /\ mx.pc = "ticked"
    /\ \E t \in Tracks :
          /\ mx.trk[t].isMuted
          /\ mx.trk[t].playing
          /\ mx.trk[t].lastBuffer = [c \in Channels |-> 10 * t + c]
          /\ mx.peak[t] = 10 * t + 1
          /\ mx.buffer[1] = 0

\* a tick that starts track t: it was queued and not playing, and plays after
StartedByTick(t) ==
    tl.trk[t].queuedToPlay /\ ~tl.trk[t].playing /\ tl'.trk[t].playing

\* C18: a timer tick starts a queued track only if the beat index computed
\* at that tick is 1; at a tick with any other beat index every track stays
\* as it was, queued tracks queued and not started.
C18_QueuedStartOnlyOnBeatOne ==
    [][\A d \in WallDeltas :
          TimerTick(d) =>
              /\ (\E t \in Tracks : StartedByTick(t))
                    => BeatIndex(tl'.timelineSeconds) = 1
              /\ BeatIndex(tl'.timelineSeconds) # 1 => tl'.trk = tl.trk]_vars

C18_Witness ==
    /\ tl.pc = "ticked"
    /\ tl.transportRunning
    /\ tl.beat = 3
    /\ \E t, u \in Tracks :
          /\ tl.trk[t].queuedToPlay /\ ~tl.trk[t].playing
          /\ tl.trk[u].playing /\ ~tl.trk[u].queuedToPlay

\* C19 as stated: a tick starts a queued track only once the timeline has
\* reached the first bar boundary after the time at which the track was
\* queued.
C19_StartAfterNextBar ==
    [][\A d \in WallDeltas :
          TimerTick(d) =>
              \A t \in Tracks :
                  StartedByTick(t) =>
                      tl'.timelineSeconds >= (tl.trk[t].queuedBar + 1) * secondsPerBar]_vars

\* C20: a timer tick with wall-clock delta d and tempo ratio r adds d * r'
\* to timelineSeconds while the timeline runs, r' being r when r > 0 and 1.0
\* otherwise, so timelineSeconds does not decrease; while the timeline does
\* not run a tick leaves timelineSeconds as it is.
C20_TickAddsScaledDelta ==
    [][\A d \in WallDeltas :
          TimerTick(d) =>
              LET r == tl.tempoSlider
                  rc == IF r > 0 THEN r ELSE 100
              IN IF tl.transportRunning
                 THEN /\ tl'.timelineSeconds = tl.timelineSeconds + (d * rc) \div 100
                      /\ tl'.timelineSeconds >= tl.timelineSeconds
                 ELSE tl'.timelineSeconds = tl.timelineSeconds]_vars

C20_Witness ==
    /\ tl.pc = "ticked"
    /\ tl.app = "timeline"
    /\ tl.transportRunning
    /\ tl.tempoSlider = 50
    /\ tl.timelineSeconds = 125

\* C21: the stop-timeline button leaves the timeline not running at 0
\* seconds, and whenever the timeline is not running timelineSeconds is 0:
\* no start, tick, tempo change or track command leaves a stopped timeline
\* at another position.
C21_StoppedTimelineAtZero ==
    /\ [](~tl.transportRunning => tl.timelineSeconds = 0)
    /\ [][StopTimeline =>
            ~tl'.transportRunning /\ tl'.timelineSeconds = 0]_vars

C21_Witness ==
    /\ tl.pc = "idle"
    /\ tl.lastCallbackSet
    /\ tl.beat = 3
    /\ ~tl.transportRunning
    /\ tl.timelineSeconds = 0

\* what the bar, the beat and the time string of t are to be
ExpectedLabel(t, bpm, bpb) ==
    [bar  |-> wholeBars(t, bpm, bpb) + 1,
     beat |-> (((t.sec % bpb) * beatsPerSecond(bpm) + t.ms \div msPerBeat(bpm)) % bpb) + 1,
     time |-> String(t.sec \div 60) \o <<":">>
              \o paddedLeft(String(t.sec % 60), "0", 2) \o <<".">>
              \o paddedLeft(String(t.ms), "0", 3)]

\* C22 as stated: for every time t >= 0, tempo bpm > 0 and beatsPerBar >= 1
\* of the timeline, the label shows bar floor(t / secondsPerBar) + 1, beat
\* (floor(t / secondsPerBeat) mod beatsPerBar) + 1 and t as
\* minutes:seconds.millis.
C22_FormatPosition ==
    fm.pc = "formatted" =>
        fm.label = ExpectedLabel(fm.args.t, fm.args.bpm, fm.beatsPerBar)

\* the example: 125.4 s at 120 bpm, 4 beats per bar
C22_Example ==
    /\ fm.pc = "formatted"
    /\ fm.args = [t |-> [sec |-> 125, ms |-> 400], bpm |-> 120, override |-> 4]
    /\ fm.beatsPerBar = 4
    /\ fm.label = [bar |-> 63, beat |-> 3,
                   time |-> <<"2", ":", "0", "5", ".", "4", "0", "0">>]

\* C23: the adjusted tempo shown for a slider value r is originalTempo * r
\* when r > 0 and originalTempo when r <= 0, at every place the program
\* reports it: after the tick of a running timeline and, in the timeline
\* program, after every change of the slider.
C23_AdjustedTempo ==
    LET r == tl.tempoSlider
        expected == IF r > 0 THEN originalTempo * r ELSE originalTempo * 100
    IN /\ (tl.pc = "ticked" /\ tl.transportRunning) => tl.bpmLabel = expected
       /\ tl.app = "timeline" => tl.bpmLabel = expected

C23_Witness ==
    /\ tl.pc = "ticked"
    /\ tl.app = "player"
    /\ tl.transportRunning
    /\ tl.tempoSlider = 200
    /\ tl.bpmLabel = 24000

\* C24 as stated: the ratio that advances the timeline and gives the
\* adjusted tempo (the slider value) is the ratio the slider last handed to
\* the processors.
C24_OneTempoRatio ==
    tl.app = "player" => tl.procTempo = tl.tempoSlider

\* a text that is not top/bottom, or whose top has no positive value
RejectedText(text) ==
    \/ ~containsChar(text, "/")
    \/ Len(fromTokens(text, "/")) # 2
    \/ getIntValue(fromTokens(text, "/")[1]) <= 0

SetterStep ==
    \/ \E v \in TempoSliderValues : TempoSliderChanged(v)
    \/ \E sem \in PitchSliderValues : PitchSliderChanged(sem)
    \/ \E b \in BOOLEAN : FormantClicked(b)

\* C26: setPitchSemiTones, setTempoRatio and setFormantEnabled, called
\* between render callbacks, leave the stretcher's buffered output (its
\* count and its content) as it is and read no track; a prepared
\* processor's stretcher holds the new value afterwards, which the next feed
\* step uses; and a retrieve that needed no feed step finds the output that
\* was buffered when the callback began.
C26_SettersKeepBufferedOutput ==
    [][/\ SetterStep =>
            /\ \A p \in Processors :
                  /\ procs'[p].available = procs[p].available
                  /\ procs'[p].buffered = procs[p].buffered
                  /\ procs'[p].stretcher = procs[p].stretcher
                  /\ procs'[p].stretcher =>
                        /\ procs'[p].timeRatio = procs'[p].currentTempo
                        /\ procs'[p].pitchScale = pitchScaleOf(procs'[p].currentPitch)
                        /\ procs'[p].formantOption = procs'[p].formantEnabled
            /\ tracks' = tracks
            /\ call' = call
       /\ \A p \in Processors :
             (Retrieve(p) /\ call[p].pulls = 0) =>
                 /\ procs[p].available = call[p].entryAvail
                 /\ \A c \in Channels : \A i \in 1..numSamples :
                        mix'[p][c][i] = procs[p].buffered]_vars

\* output buffered before the tempo was set to 0: at ratio 0 none is made
C26_Witness ==
    /\ rpc = "musical"
    /\ call["drum"].pulls = 0
    /\ Extracted("drum")
    /\ procs["drum"].timeRatio = 0
    /\ procs["musical"].pitchScale = 20000
    /\ procs["musical"].formantOption
    /\ \A c \in Channels : \A i \in 1..numSamples : mix["drum"][c][i] = "audio"

\* C27 as stated: after a prepare whose arguments no stretcher can be made
\* for, the error has been reported to the caller, and every processBlock
\* call on that processor afterwards ran no input provider and left its
\* output all zero.
C27_RefusedPrepareSilences ==
    \A p \in Processors :
        procs[p].refused =>
            /\ procs[p].thrown
            /\ rpc \in (IF p = "drum" THEN {"musical", "merge", "return"}
                         ELSE {"merge", "return"})
                  => (call[p].pulls = 0 /\ AllZero(mix[p]))

\* 2^(s/12) in 1/10000 for the semitone values the pitch slider is moved to
ExpectedScale(semitones) ==
    CASE semitones = 0   -> 10000
      [] semitones = 12  -> 20000
      [] semitones = -12 -> 5000
      [] semitones = 7   -> 14983

\* C28: the pitch scale a prepared processor's stretcher holds is 2^(s/12)
\* for the pitch s last set, whether it was set before prepare or after:
\* 1.0 for s = 0, 2.0 for s = 12, 0.5 for s = -12.
C28_PitchScale ==
    \A p \in Processors :
        procs[p].stretcher => procs[p].pitchScale = ExpectedScale(procs[p].currentPitch)

C28_Witness ==
    /\ procs["musical"].stretcher
    /\ procs["musical"].currentPitch = -12
    /\ procs["musical"].pitchScale = 5000
    /\ procs["drum"].pitchScale = 10000
    /\ procs["musical"].available > 0

\* C29 as stated: once a stop command has returned (the state is Stopped and
\* no command is running) the source's read position is 0, also when a
\* render callback had begun while the state was Playing.
C29_StoppedAtZero ==
    (conc.pc = "idle" /\ state = "Stopped") => conc.position = 0

\* C30 as stated: the two processBlock calls of one render callback run
\* with the same tempo ratio, however a tempo change interleaves with the
\* callback.
C30_OneRatioPerCallback ==
    tc.apc = "merge" => tc.used["drum"] = tc.used["musical"]

\* play() and stop(): the play and stop buttons of the players
TransportCommand ==
    \/ PlayButtonClicked
    \/ StopButtonClicked
    \/ (tl # NoTimeline /\ (PlayAll \/ StopAll))

\* C31: every step that changes the transport state is a play or a stop
\* command: the steps of a render callback, a source reaching its end in one,
\* the loop toggle, prepareToPlay and the tempo slider leave it as it is, and
\* it is still Playing after every track's source has run out.
C31_StateOnlyByPlayStop == [][state' # state => TransportCommand]_vars

C31_Witness ==
    /\ state = "Playing"
    /\ rpc = "idle"
    /\ cmdLog = <<PlayFromStopped>>
    /\ ~loopToggle
    /\ \A t \in Tracks : ~tracks[t].playing /\ tracks[t].position > SourceLength

\* C32 as stated: while the transport state of the player with per-track
\* controls is Stopped or Paused, no track is playing.
C32_NoTrackPlaysWhileStopped ==
    (tl # NoTimeline /\ tl.app = "player" /\ state \in {"Stopped", "Paused"}) =>
        \A t \in Tracks : ~tl.trk[t].playing

\* what a step must not do to track t if the step is a stop of t, and if it
\* is a timer tick
LeavesQueuedOrPlaying(t) == tl'.trk[t].queuedToPlay \/ tl'.trk[t].playing
TickMisstarts(t) ==
    \/ ~tl.trk[t].queuedToPlay /\ tl'.trk[t] # tl.trk[t]
    \/ StartedByTick(t) /\ tl'.trk[t].queuedToPlay

\* C33: the stop button of a track and the global stop leave the track not
\* playing with queuedToPlay cleared; a timer tick leaves a track whose flag
\* is clear as it was, playing or not; and a track a tick starts has its flag
\* cleared by that tick, so the next tick does not start it again.  (Each
\* line reads: a step that does otherwise is not that handler.)
C33_StopClearsQueue ==
    [][/\ \A t \in Tracks : LeavesQueuedOrPlaying(t) => ~TrackStop(t)
       /\ (\E t \in Tracks : LeavesQueuedOrPlaying(t)) => ~StopAll
       /\ (\E t \in Tracks : TickMisstarts(t)) =>
             ~(\E d \in WallDeltas : TimerTick(d))]_vars

\* a tick at beat 1 that started a queued track and left alone another one
C33_Witness ==
    /\ tl # NoTimeline
    /\ tl.pc = "ticked"
    /\ tl.beat = 1
    /\ tl.timelineSeconds = secondsPerBar
    /\ tl.quantizeToggle
    /\ \E t, u \in Tracks :
          /\ tl.trk[t] = InitTimelineTrack
          /\ tl.trk[u].playing /\ ~tl.trk[u].queuedToPlay

\* a further short tick fits: the slider gives one, below the model's end of
\* the timeline
TickPossible ==
    \E d \in WallDeltas :
        /\ tickAdvance(tl, d) < secondsPerBeat
        /\ tickedTimeline(tl, d) <= MaxTimeline

\* C34: with timer ticks that keep coming and move the timeline by less
\* than one beat each, the queuedToPlay flag of every queued track is
\* eventually cleared, by the tick that starts the track unless a stop
\* cancelled it first, whether the timeline runs or is stopped.
C34_QueuedEventuallyStarted ==
    \A t \in Tracks :
        (tl.trk[t].queuedToPlay /\ ~tl.trk[t].playing)
            ~> (tl.trk[t].playing \/ ~tl.trk[t].queuedToPlay \/ ~TickPossible)

\* a queued track started by a short tick of the running timeline, in the
\* first beat of the second bar
C34_Witness ==
    /\ tl # NoTimeline
    /\ tl.pc = "ticked"
    /\ tl.transportRunning
    /\ tl.timelineSeconds = secondsPerBar + 125
    /\ tl.beat = 1
    /\ tl.quantizeToggle
    /\ state = "Stopped"
    /\ \E t \in Tracks :
          /\ tl.trk[t].playing /\ ~tl.trk[t].queuedToPlay
          /\ \A u \in Tracks \ {t} : tl.trk[u] = InitTimelineTrack

\* C35: every read of a track's source is one chunk of requiredSamples
\* frames, whatever the block size of the render callback, and every run of
\* the input provider reads every track of its group: read positions are
\* whole chunks, and two playing tracks of one group are at the same
\* position.
C35_GroupReadsInStep ==
    /\ \A t \in Tracks : tracks[t].position % requiredSamples = 0
    /\ \A t, u \in Tracks :
          (isPercussive(t) = isPercussive(u) /\ tracks[t].playing /\ tracks[u].playing)
              => tracks[t].position = tracks[u].position

\* after a callback of one frame: the melodic tracks one chunk on, the
\* percussive track two
C35_Witness ==
    /\ rpc = "return"
    /\ numSamples = 1
    /\ state = "Playing"
    /\ \A t \in Tracks : tracks[t].playing
    /\ \A t \in Tracks :
          tracks[t].position = IF isPercussive(t) THEN 2 * requiredSamples
                               ELSE requiredSamples

\* C36: with the processBlock that feeds until available() is at least twice
\* outSamples, a call on a prepared processor that has returned left at
\* least outSamples frames buffered in the stretcher.
C36_MarginLeftAfterCall ==
    variant = 2 =>
        \A p \in Processors :
            Extracted(p) => procs[p].available >= numSamples

\* both calls fed from an empty stretcher and left exactly outSamples frames
C36_Witness ==
    /\ variant = 2
    /\ rpc = "return"
    /\ numSamples = MaxBlock
    /\ \A p \in Processors :
          /\ Extracted(p)
          /\ call[p].entryAvail = 0
          /\ call[p].pulls > 0
          /\ procs[p].available = numSamples

\* C37 as stated: for every time t >= 0 and beatsPerBar >= 1 the label has
\* bar >= 1, 1 <= beat <= beatsPerBar and
\* (bar - 1) * beatsPerBar + (beat - 1) = floor(t / secondsPerBeat), from
\* which it follows that (bar, beat) does not move backwards as t grows.
\* (Where floor(t / secondsPerBeat) is beyond int the label's numbers cannot
\* add up to it.)
C37_BarBeatCountBeats ==
    (fm # NoFormat /\ fm.pc = "formatted") =>
        /\ fm.label.bar >= 1
        /\ fm.label.beat >= 1
        /\ fm.label.beat <= fm.beatsPerBar
        /\ fitsBeats(fm.args.t, fm.args.bpm)
        /\ (fm.label.bar - 1) * fm.beatsPerBar + (fm.label.beat - 1)
              = wholeBeats(fm.args.t, fm.args.bpm)

\* the stretcher of pr holds the stored pitch, tempo and formant setting
HoldsStored(pr) ==
    /\ pr.timeRatio = pr.currentTempo
    /\ pr.pitchScale = pitchScaleOf(pr.currentPitch)
    /\ pr.formantOption = pr.formantEnabled

\* C38: prepareToPlay gives each stretcher the pitch, tempo and formant
\* setting stored before it and leaves the stored values as they are; each
\* control stores the value it was moved to; and in every state a prepared
\* processor's stretcher holds the stored values, whatever the order of the
\* controls and prepareToPlay.
C38_SettingsSurvivePrepare ==
    /\ [](\A p \in Processors : procs[p].stretcher => HoldsStored(procs[p]))
    /\ [][/\ PrepareToPlay =>
               \A p \in Processors :
                   /\ procs'[p].stretcher
                   /\ procs'[p].currentTempo = procs[p].currentTempo
                   /\ procs'[p].currentPitch = procs[p].currentPitch
                   /\ procs'[p].formantEnabled = procs[p].formantEnabled
                   /\ HoldsStored(procs'[p])
          /\ \A v \in TempoSliderValues :
                TempoSliderChanged(v) =>
                    \A p \in Processors : procs'[p].currentTempo = 200 - v
          /\ \A sem \in PitchSliderValues :
                PitchSliderChanged(sem) => procs'["musical"].currentPitch = sem
          /\ \A b \in BOOLEAN :
                FormantClicked(b) =>
                    \A p \in Processors : procs'[p].formantEnabled = b]_vars

\* prepared with an octave up, time ratio 0 and formants preserved, before
\* any track was read
C38_Witness ==
    /\ rpc = "idle"
    /\ \A t \in Tracks : tracks[t].position = 0
    /\ \A p \in Processors :
          /\ procs[p].stretcher /\ ~procs[p].refused
          /\ procs[p].timeRatio = 0
          /\ procs[p].formantOption
    /\ procs["musical"].currentPitch = 12
    /\ procs["musical"].pitchScale = 20000

\* C39: the pitch slider reaches the melodic processor only: the percussive
\* processor's pitch is 0 semitones, and its stretcher's pitch scale 1.0, in
\* every state; the tempo slider and the formant checkbox reach both: the
\* two processors store the same tempo and formant setting, and their
\* stretchers hold the same once both are prepared.
C39_PitchOnlyMelodic ==
    LET d == procs["drum"]
        m == procs["musical"]
    IN /\ d.currentPitch = 0
       /\ d.pitchScale = 10000
       /\ d.currentTempo = m.currentTempo
       /\ d.formantEnabled = m.formantEnabled
       /\ (d.stretcher /\ m.stretcher) =>
             (d.timeRatio = m.timeRatio /\ d.formantOption = m.formantOption)

C39_Witness ==
    /\ procs["musical"].currentPitch = 7
    /\ procs["musical"].pitchScale = 14983
    /\ procs["drum"].currentPitch = 0
    /\ \A p \in Processors :
          /\ procs[p].stretcher
          /\ procs[p].timeRatio = 0
          /\ procs[p].formantOption
          /\ procs[p].available > 0

====
